---- MODULE Spec2Model ----
(***************************************************************************)
(* Peak fitting of MCA spectra (analysis/fitting.py): the cut extractor    *)
(* get_cut, the two-stage fitter fit_odr, the MCA wrapper fit_mca_gaussian,*)
(* the spectrum fits fit_am / fit_fe / fit_manual and the HV-scan loops.   *)
(*                                                                         *)
(* Array indices are the 0-based indices of the Python code; a TLA+        *)
(* sequence s holds element i of the array at s[i + 1].  Floats that the   *)
(* code multiplies with integers (threshold_level, cut_width_mult, 0.4)    *)
(* are exact rationals <<numerator, denominator>>, denominator > 0.        *)
(***************************************************************************)
EXTENDS Integers, Sequences, FiniteSets

VARIABLES
    data,             \* get_cut: the array handed to get_cut
    threshold_level,  \* get_cut: the threshold_level argument
    cutCalls,         \* get_cut: the calls made so far, each [mult, ret]
    mcas,             \* the caller's MeasMCA objects (counts, nonlinearities)
    subtracted,       \* the caller's background-subtracted array, or None
    initial,          \* mcas and subtracted as they were handed over
    call,             \* the last call of a fit function and how it ended
    filtered,         \* fit_am's local array `filtered` of the last call
    printed,          \* the warnings the last call printed
    solverLog,        \* the solver invocations of the last call
    scan              \* the HV-scan loop: its locals and position

vars == <<data, threshold_level, cutCalls, mcas, subtracted, initial, call,
          filtered, printed, solverLog, scan>>

\* Python's None where an array, a tuple or a number may stand (a number
\* that may be None is held as <<number>>); NoExc where an exception may
None == <<>>
NoExc == "no exception"

\* ------------------------------------------------------------------ bounds
MaxLen == 4
MaxVal == 2
MaxCalls == 2
SpecLen == 14
MaxBatch == 4
MaxManual == 3

\* --------------------------------------------------------------- constants
THRESHOLD_LEVEL == <<1, 2>>
CUT_WIDTH_MULT == <<17, 10>>

\* ------------------------------------------------------------ arithmetic
Max2(a, b) == IF a >= b THEN a ELSE b
Min2(a, b) == IF a <= b THEN a ELSE b

SetMax(S) == CHOOSE x \in S : \A y \in S : y <= x
SetMin(S) == CHOOSE x \in S : \A y \in S : x <= y

\* a <= b for rationals
RatLeq(a, b) == a[1] * b[2] <= b[1] * a[2]

\* Python's round() of the non-negative rational num/den: to the nearest
\* integer, a tie to the even one.
Round(num, den) ==
    LET q == num \div den
        r == num % den
    IN  IF 2 * r < den THEN q
        ELSE IF 2 * r > den THEN q + 1
        ELSE IF q % 2 = 0 THEN q ELSE q + 1

\* np.arange(lo, hi): lo, lo + 1, ..., hi - 1; empty when hi <= lo
Arange(lo, hi) == [k \in 1..Max2(0, hi - lo) |-> lo + k - 1]

\* ---------------------------------------------------------------- get_cut
\* np.argmax(data): the first index of the maximum
ArgMax(d) ==
    SetMin({i \in 0..(Len(d) - 1) : \A j \in 0..(Len(d) - 1) : d[j + 1] <= d[i + 1]})

ThresholdIndsGeq(d, peak, level) ==
    {i \in 0..(Len(d) - 1) : d[i + 1] * level[2] >= peak * level[1]}

\* np.where(data > peak * threshold_level)[0]
ThresholdInds(d, peak, level) ==
    {i \in 0..(Len(d) - 1) : d[i + 1] * level[2] > peak * level[1]}

CutIndMinFlipped(peak_ind, first, mult) ==
    Round(Max2(0, peak_ind * mult[2] + mult[1] * (peak_ind - first)), mult[2])

\* int(round(max(0, peak_ind - cut_width_mult * (peak_ind - threshold_inds[0]))))
CutIndMin(peak_ind, first, mult) ==
    Round(Max2(0, peak_ind * mult[2] - mult[1] * (peak_ind - first)), mult[2])

CutIndMaxNoPlusOne(size, peak_ind, last, mult) ==
    Round(Min2(size * mult[2], peak_ind * mult[2] + mult[1] * (last - peak_ind)),
          mult[2])

CutIndMaxNoClamp(size, peak_ind, last, mult) ==
    Round(peak_ind * mult[2] + mult[1] * (last - peak_ind) + mult[2], mult[2])

\* int(round(min(data.size, peak_ind + cut_width_mult * (threshold_inds[-1] - peak_ind) + 1)))
CutIndMax(size, peak_ind, last, mult) ==
    Round(Min2(size * mult[2],
               peak_ind * mult[2] + mult[1] * (last - peak_ind) + mult[2]),
          mult[2])

Raised(exc) ==
    [raised |-> exc, cut_inds |-> <<>>, threshold_width |-> 0, peak_ind |-> 0,
     peak |-> 0]

\* get_cut(data, threshold_level, cut_width_mult).  np.argmax of an empty
\* array raises ValueError; threshold_inds[-1] of an empty index array raises
\* IndexError.
get_cut(d, level, mult) ==
    IF Len(d) = 0 THEN Raised("ValueError")
    ELSE
      LET peak_ind == ArgMax(d)
          peak == d[peak_ind + 1]
          threshold_inds == ThresholdInds(d, peak, level)
      IN  IF threshold_inds = {} THEN Raised("IndexError")
          ELSE
            LET first == SetMin(threshold_inds)
                last == SetMax(threshold_inds)
                cut_ind_min == CutIndMin(peak_ind, first, mult)
                cut_ind_max == CutIndMax(Len(d), peak_ind, last, mult)
            IN  [raised |-> NoExc,
                 cut_inds |-> Arange(cut_ind_min, cut_ind_max),
                 threshold_width |-> last - first,
                 peak_ind |-> peak_ind,
                 peak |-> peak]

\* ------------------------------------------------------------ the solvers
\* scipy's curve_fit and ODR are outside the repository.  What they return
\* for a given problem is not modelled: a call's outcome is chosen from the
\* outcomes below.  A parameter vector is the term naming the stage that
\* produced it; a covariance matrix is a 3 x 3 matrix over {"0", "1", "inf"}.
M3(d, o) == <<<<d, o, o>>, <<o, d, o>>, <<o, o, d>>>>
CovZero == M3("0", "0")
CovDiag == M3("1", "0")
CovOffDiag == M3("0", "1")
CovInf == M3("inf", "inf")

LsqCovs == {CovDiag, CovInf}
OdrCovs == {CovZero, CovOffDiag}

\* what the two solvers do in one fit_odr call: curve_fit raises (no
\* convergence, fewer points than parameters), or both return
Outcomes ==
    {[raises |-> TRUE, lsq |-> CovZero, odr |-> CovZero]}
        \cup {[raises |-> FALSE, lsq |-> c1, odr |-> c2] :
                 c1 \in LsqCovs, c2 \in OdrCovs}

\* the outcomes drawn in each iteration of a scan: curve_fit raises, the ODR
\* result is kept, or the ODR covariance is zero and the curve_fit result
\* (here with an infinite covariance) is returned
ScanOutcomes ==
    {o \in Outcomes : \/ o.raises
                      \/ o.lsq = CovDiag /\ o.odr = CovOffDiag
                      \/ o.lsq = CovInf /\ o.odr = CovZero}

Entries(m) == {m[i][j] : i \in 1..3, j \in 1..3}
\* np.any(np.isinf(m))
AnyInf(m) == "inf" \in Entries(m)
\* np.any(m)
NpAny(m) == \E e \in Entries(m) : e # "0"

LSQ_WARNING == "Warning! Least squares covariances could not be estimated."
ODR_WARNING == "Warning! The ODR covariances could not be estimated"

\* ---------------------------------------------------------------- fit_odr
FitOdrResultCoeffOnly(fit, out) ==
    IF ~NpAny(out.cov_beta) THEN <<fit[1], out.cov_beta>>
    ELSE <<out.beta, out.cov_beta>>

\* coeff, coeff_covar as fit_odr returns them: the ODR result, replaced by
\* the curve_fit result when the ODR covariance has no non-zero entry
FitOdrResult(fit, out) ==
    IF ~NpAny(out.cov_beta) THEN <<fit[1], fit[2]>>
    ELSE <<out.beta, out.cov_beta>>

Fail(exc, warnings, log, locals) ==
    [raised |-> exc, ret |-> None, printed |-> warnings, log |-> log,
     locals |-> locals]

\* fit_odr(func, x, y, std_x, std_y, p0) when the solvers behave as `o`
fit_odr(func, x, y, std_x, std_y, p0, o) ==
    LET lsqCall == [solver |-> "curve_fit", func |-> func, x |-> x, y |-> y,
                    p0 |-> p0, sigma |-> std_y, out |-> None]
    IN  IF o.raises
        THEN Fail("SolverError", <<>>, <<lsqCall>>, <<>>)
        ELSE
          LET fit == <<[stage |-> "curve_fit", p0 |-> p0], o.lsq>>
              warn1 == IF AnyInf(fit[2]) THEN <<LSQ_WARNING>> ELSE <<>>
              out == [beta |-> [stage |-> "odr", beta0 |-> fit[1]],
                      cov_beta |-> o.odr]
              odrCall == [solver |-> "odr", func |-> func, x |-> x, y |-> y,
                          sx |-> std_x, sy |-> std_y, beta0 |-> fit[1],
                          out |-> out]
              warn2 == IF ~NpAny(out.cov_beta) THEN <<ODR_WARNING>> ELSE <<>>
          IN  [raised |-> NoExc,
               ret |-> FitOdrResult(fit, out),
               printed |-> warn1 \o warn2,
               log |-> <<[lsqCall EXCEPT !.out = fit], odrCall>>,
               locals |-> <<>>]

\* ------------------------------------------------------- fit_mca_gaussian
InitialGuessNoFactor(peak, peak_ind, threshold_width) ==
    <<peak, peak_ind, <<threshold_width, 1>>>>

\* p0 = (peak, peak_ind, 0.4 * threshold_width)
InitialGuess(peak, peak_ind, threshold_width) ==
    <<peak, peak_ind, <<2 * threshold_width, 5>>>>

\* mca.int_nonlin * counts
Scaled(int_nonlin, counts) ==
    [k \in 1..Len(counts) |-> int_nonlin[1] * counts[k]]

\* fit_mca_gaussian(mca, inds, counts, peak, peak_ind, threshold_width)
fit_mca_gaussian(mca, inds, counts, peak, peak_ind, threshold_width, o) ==
    IF mca.diff_nonlin = None \/ mca.int_nonlin = None
    THEN Fail("ValueError: nonlinearities", <<>>, <<>>, <<>>)
    ELSE fit_odr("gaussian_scaled", inds, counts, mca.diff_nonlin,
                 Scaled(mca.int_nonlin, counts),
                 InitialGuess(peak, peak_ind, threshold_width), o)

\* counts[inds] for an index array inside the array
Take(counts, inds) == [k \in 1..Len(inds) |-> counts[inds[k] + 1]]

\* ----------------------------------------------------------------- fit_am
\* The arrays of one fit_am call: `counts` names the caller's array,
\* `filtered` the array fit_am zeroes.
FilteredAlias(ref) == ref

\* filtered = counts.copy(): a new array
FilteredRef(ref) == "filtered"

\* a[:n] = 0
ZeroPrefix(a, n) == [k \in 1..Len(a) |-> IF k <= n THEN 0 ELSE a[k]]

\* fit_am(mca, ax, threshold_level, cut_width_mult, subtracted): what it
\* returns, and the arrays `counts` and `filtered` as it leaves them
fit_am(mca, level, mult, sub, o) ==
    LET counts == IF sub # None THEN sub ELSE mca.counts
        peak0 == SetMax({counts[k] : k \in 1..Len(counts)})
        above_threshold == ThresholdInds(counts, peak0, level)
    IN  IF above_threshold = {}
        THEN [res |-> Fail("IndexError", <<>>, <<>>, <<>>), counts |-> counts,
              filtered |-> None]
        ELSE
          LET half_ind == (SetMin(above_threshold) + SetMax(above_threshold)) \div 2
              fref == FilteredRef("counts")
              heap0 == [r \in {"counts", "filtered"} |-> counts]
              heap == [heap0 EXCEPT ![fref] = ZeroPrefix(heap0[fref], half_ind)]
              cut == get_cut(heap[fref], level, mult)
          IN  IF cut.raised # NoExc
              THEN [res |-> Fail(cut.raised, <<>>, <<>>, <<>>),
                    counts |-> heap["counts"], filtered |-> heap[fref]]
              ELSE [res |-> [fit_mca_gaussian(mca, cut.cut_inds,
                                              Take(heap["counts"], cut.cut_inds),
                                              cut.peak, cut.peak_ind,
                                              cut.threshold_width, o)
                             EXCEPT !.locals = [cut_inds |-> cut.cut_inds,
                                                half_ind |-> half_ind]],
                    counts |-> heap["counts"], filtered |-> heap[fref]]

\* ----------------------------------------------------------------- fit_fe
SecondaryGuard == 10

\* a[:e]: a negative e counts from the end of the array
SliceTo(a, e) ==
    LET n == IF e >= 0 THEN Min2(e, Len(a)) ELSE Max2(0, Len(a) + e)
    IN  SubSeq(a, 1, n)

\* fit_fe(mca, ax, threshold_level, cut_width_mult, secondary, subtracted);
\* o1 and o2 are the solvers' outcomes for the primary and the secondary fit
fit_fe(mca, level, mult, secondary, sub, o1, o2) ==
    LET counts == IF sub # None THEN sub ELSE mca.counts
        cut == get_cut(counts, level, mult)
    IN  IF cut.raised # NoExc THEN Fail(cut.raised, <<>>, <<>>, <<>>)
        ELSE
          LET loc1 == [cut_inds |-> cut.cut_inds]
              fit == fit_mca_gaussian(mca, cut.cut_inds, Take(counts, cut.cut_inds),
                                      cut.peak, cut.peak_ind, cut.threshold_width, o1)
          IN  IF fit.raised # NoExc THEN [fit EXCEPT !.locals = loc1]
              ELSE IF ~secondary THEN [fit EXCEPT !.locals = loc1]
              ELSE
                LET window == SliceTo(counts, cut.cut_inds[1] - SecondaryGuard)
                    cut2 == get_cut(window, level, mult)
                    loc2 == [cut_inds |-> cut.cut_inds, window |-> Len(window),
                             cut_inds2 |-> cut2.cut_inds]
                IN  IF cut2.raised # NoExc
                    THEN Fail(cut2.raised, fit.printed, fit.log,
                              [cut_inds |-> cut.cut_inds, window |-> Len(window)])
                    ELSE
                      LET fit2 == fit_mca_gaussian(mca, cut2.cut_inds,
                                                   Take(counts, cut2.cut_inds),
                                                   cut2.peak, cut2.peak_ind,
                                                   cut2.threshold_width, o2)
                      IN  IF fit2.raised # NoExc
                          THEN Fail(fit2.raised, fit.printed \o fit2.printed,
                                    fit.log \o fit2.log, loc2)
                          ELSE [raised |-> NoExc,
                                ret |-> <<fit.ret, fit2.ret>>,
                                printed |-> fit.printed \o fit2.printed,
                                log |-> fit.log \o fit2.log,
                                locals |-> loc2]

\* ------------------------------------------------------------- fit_manual
\* fit_manual(mca, ax, min_ind, max_ind, subtracted), 0 <= min_ind, max_ind
fit_manual(mca, min_ind, max_ind, sub, o) ==
    LET counts == IF sub # None THEN sub ELSE mca.counts
        cut_inds == Arange(min_ind, max_ind)
    IN  IF max_ind > Len(counts) /\ cut_inds # <<>>
        THEN Fail("IndexError", <<>>, <<>>, <<>>)
        ELSE IF cut_inds = <<>>
        THEN Fail("ValueError", <<>>, <<>>, <<>>)
        ELSE
          LET peak_ind == min_ind + ArgMax(Take(counts, cut_inds))
              peak == counts[peak_ind + 1]
              threshold_width == max_ind - min_ind
          IN  [fit_mca_gaussian(mca, cut_inds, Take(counts, cut_inds), peak,
                                peak_ind, threshold_width, o)
               EXCEPT !.locals = [cut_inds |-> cut_inds]]

\* ------------------------------------------------ get_cut called directly
Vals == (0 - 1)..MaxVal
Arrays == UNION {[1..n -> Vals] : n \in 1..MaxLen}
Levels == {<<1, 4>>, THRESHOLD_LEVEL, <<3, 4>>}
Mults == {<<1, 2>>, <<1, 1>>, <<3, 2>>, CUT_WIDTH_MULT, <<5, 2>>}

NoCall == [fn |-> "no call"]
NoScan == [pc |-> "idle"]

FitIdle ==
    /\ mcas = <<>>
    /\ subtracted = None
    /\ initial = <<>>
    /\ call = NoCall
    /\ filtered = None
    /\ printed = <<>>
    /\ solverLog = <<>>
    /\ scan = NoScan

fitVars == <<mcas, subtracted, initial, call, filtered, printed, solverLog, scan>>

InitCut ==
    /\ data \in Arrays
    /\ threshold_level \in Levels
    /\ cutCalls = {}
    /\ FitIdle

\* one call get_cut(data, threshold_level, mult)
GetCut ==
    /\ Cardinality(cutCalls) < MaxCalls
    /\ \E mult \in Mults :
         cutCalls' = cutCalls \cup {[mult |-> mult,
                                     ret |-> get_cut(data, threshold_level, mult)]}
    /\ UNCHANGED <<data, threshold_level>>
    /\ UNCHANGED fitVars

NextCut == GetCut

SpecCut == InitCut /\ [][NextCut]_vars

\* ---------------------------------------------------- claims about get_cut
Returned(c) == c.ret.raised = NoExc
Indices(c) == {c.ret.cut_inds[k] : k \in 1..Len(c.ret.cut_inds)}
First(c) == c.ret.cut_inds[1]
Last(c) == c.ret.cut_inds[Len(c.ret.cut_inds)]
DataMax == SetMax({data[k] : k \in 1..Len(data)})
Flat == \A k \in 1..Len(data) : data[k] = data[1]
Qualifying == {i \in 0..(Len(data) - 1) :
                 data[i + 1] * threshold_level[2] > DataMax * threshold_level[1]}

CutContains(c) ==
    /\ Returned(c)
    /\ Len(c.ret.cut_inds) > 0
    /\ \A k \in 1..(Len(c.ret.cut_inds) - 1) :
         c.ret.cut_inds[k + 1] = c.ret.cut_inds[k] + 1
    /\ Indices(c) \subseteq 0..(Len(data) - 1)
    /\ c.ret.peak_ind \in Indices(c)
    /\ data[c.ret.peak_ind + 1] = DataMax
    /\ c.ret.peak = DataMax

\* C1 as stated: every call of get_cut on a non-empty array returns a
\* non-empty contiguous cut inside [0, len(data)) that contains the peak index.
C1_Original == \A c \in cutCalls : CutContains(c)

\* C1: every call of get_cut on an array whose maximum is positive returns a
\* non-empty contiguous cut inside [0, len(data)) that contains the peak
\* index, the index of the maximum of data.
C1_CutContainment == \A c \in cutCalls : DataMax > 0 => CutContains(c)

C1_Witness ==
    \E c \in cutCalls :
        /\ DataMax > 0
        /\ Len(data) = MaxLen
        /\ Len(c.ret.cut_inds) > 1
        /\ Len(c.ret.cut_inds) < Len(data)
        /\ c.ret.peak_ind > 0

\* C5: for the same data and threshold_level, a call with the smaller
\* cut_width_mult returns a cut that is a subset of the cut of the call with
\* the larger one: the lower bound does not increase and the exclusive upper
\* bound does not decrease.
C5_MonotonicWidening ==
    \A a, b \in cutCalls :
        (Returned(a) /\ Returned(b) /\ RatLeq(a.mult, b.mult))
        => /\ Indices(a) \subseteq Indices(b)
           /\ Len(a.ret.cut_inds) > 0
           /\ Len(b.ret.cut_inds) > 0
           /\ First(b) <= First(a)
           /\ Last(a) <= Last(b)

C5_Witness ==
    \E a, b \in cutCalls :
        /\ Returned(a)
        /\ Returned(b)
        /\ a.mult # b.mult
        /\ RatLeq(a.mult, b.mult)
        /\ First(b) < First(a)
        /\ Len(a.ret.cut_inds) + 2 <= Len(b.ret.cut_inds)

BoundaryCut(c) ==
    /\ ArgMax(data) = 0
         => /\ Returned(c)
            /\ Len(c.ret.cut_inds) > 0
            /\ First(c) = 0
            /\ Last(c) + 1
                 = Round(Min2(Len(data) * c.mult[2],
                              c.mult[1] * SetMax(Qualifying) + c.mult[2]),
                         c.mult[2])
    /\ ArgMax(data) = Len(data) - 1
         => /\ Returned(c)
            /\ Len(c.ret.cut_inds) > 0
            /\ Last(c) = Len(data) - 1

\* C8 as stated: for every array whose maximum is at index 0 the cut starts
\* at 0 and ends at round(min(len, mult * last + 1)); for every array whose
\* maximum is at the last index the cut ends at len - 1.
C8_Original == \A c \in cutCalls : BoundaryCut(c)

\* C8: for every array whose maximum is positive and at index 0 the cut
\* starts at 0 and its exclusive upper bound is
\* round(min(len, mult * last_qualifying_index + 1)); for every array whose
\* maximum is positive and at the last index the cut's last index is len - 1.
C8_BoundaryPeak == \A c \in cutCalls : DataMax > 0 => BoundaryCut(c)

C8_Witness ==
    \E c \in cutCalls :
        /\ data = <<2, 1, 0, 0>>
        /\ threshold_level = <<1, 4>>
        /\ c.mult = CUT_WIDTH_MULT
        /\ c.ret.cut_inds = <<0, 1, 2>>

Degenerate(c) ==
    /\ Returned(c)
    /\ c.ret.threshold_width = 0
    /\ Len(c.ret.cut_inds) = 1

\* C9 as stated: on all-zero or flat data get_cut returns normally with
\* threshold_width 0 and a cut of exactly one index.
C9_Original == \A c \in cutCalls : Flat => Degenerate(c)

\* C9: on flat data with a positive value get_cut returns normally, with
\* threshold_width = len - 1 and the cut [0, round(min(len, mult*(len-1)+1)))
\* (width 0 and one index only for len = 1); on all-zero data it raises
\* IndexError instead of returning.
C9_DegenerateData ==
    \A c \in cutCalls :
        /\ (Flat /\ data[1] > 0)
             => /\ Returned(c)
                /\ c.ret.threshold_width = Len(data) - 1
                /\ c.ret.cut_inds
                     = Arange(0, Round(Min2(Len(data) * c.mult[2],
                                            c.mult[1] * (Len(data) - 1) + c.mult[2]),
                                       c.mult[2]))
        /\ (Flat /\ data[1] = 0) => c.ret.raised = "IndexError"

C9_Witness ==
    \E a, b \in cutCalls :
        /\ Flat
        /\ data[1] > 0
        /\ Len(data) = 3
        /\ a.ret.threshold_width = 2
        /\ Len(a.ret.cut_inds) = 2
        /\ Len(b.ret.cut_inds) = 3

\* ------------------------------------------------- the HV-scan functions
\* int(np.sqrt(n))
Isqrt(n) == SetMax({k \in 0..n : k * k <= n})

\* create_subplot_grid(num_plots): the grid, or what it raises.  plt.subplots
\* returns a 2-D array of axes only when both sides of the grid exceed 1 (a
\* 1-D array or a single Axes otherwise), and flattening it iterates two levels.
create_subplot_grid(num_plots) ==
    LET num_plots_x == Isqrt(num_plots)
    IN  IF num_plots_x = 0 THEN [raised |-> "ZeroDivisionError", axes |-> 0]
        ELSE
          LET num_plots_y == (num_plots + num_plots_x - 1) \div num_plots_x
          IN  IF num_plots_x = 1 \/ num_plots_y = 1
              THEN [raised |-> "TypeError: Axes not iterable", axes |-> 0]
              ELSE [raised |-> NoExc, axes |-> num_plots_x * num_plots_y]

CollectFront(fits, fit) == <<fit>> \o fits

\* fits.append(fit)
Collect(fits, fit) == Append(fits, fit)

LoopRaiseSkip(s, exc) ==
    [scan |-> [s EXCEPT !.i = s.i + 1], status |-> "running", raised |-> NoExc]

\* an exception of the loop body leaves the loop and the function: there is
\* no try/except around the fit of one spectrum
LoopRaise(s, exc) ==
    [scan |-> NoScan, status |-> "raised", raised |-> exc]

\* ------------------------------------------------------------- the callers
Abs(x) == IF x < 0 THEN 0 - x ELSE x
Tri(h, d) == Max2(0, h - d)

\* a spectrum of SpecLen channels: a peak of height h1 at channel p1 and one
\* of height h2 at channel p2, each falling off by one count per channel
TwoPeak(p1, h1, p2, h2) ==
    [k \in 1..SpecLen |-> Tri(h1, Abs(k - 1 - p1)) + Tri(h2, Abs(k - 1 - p2))]

Measurement(counts, dnl, inl) ==
    [counts |-> counts, diff_nonlin |-> dnl, int_nonlin |-> inl]

\* a narrow line in the last channel with a weak line far to its left, a
\* broad line in channel 6, and the first without differential nonlinearity
NarrowLine == Measurement(TwoPeak(SpecLen - 1, 2, 1, 1), <<1>>, <<2>>)
BroadLine == Measurement(TwoPeak(6, 3, 1, 1), <<1>>, <<2>>)
Unconfigured == [NarrowLine EXCEPT !.diff_nonlin = None]
ScanObjects == {NarrowLine, BroadLine, Unconfigured}

FitObjects ==
    {Measurement(TwoPeak(p1, h1, p2, h2), dnl, inl) :
        p1 \in 0..(SpecLen - 1), h1 \in {0, 2, 3}, p2 \in {1, 4}, h2 \in {0, 1},
        dnl \in {None, <<1>>}, inl \in {None, <<2>>}}

\* a background-subtracted spectrum: negative where the background exceeds
\* the counts
Background == [k \in 1..SpecLen |-> TwoPeak(6, 3, 1, 1)[k] - 1]

cutVars == <<data, threshold_level, cutCalls>>

CutIdle ==
    /\ data = <<>>
    /\ threshold_level = THRESHOLD_LEVEL
    /\ cutCalls = {}

InitCallers(lists) ==
    /\ CutIdle
    /\ mcas \in lists
    /\ subtracted = Background
    /\ initial = [mcas |-> mcas, subtracted |-> subtracted]
    /\ call = NoCall
    /\ filtered = None
    /\ printed = <<>>
    /\ solverLog = <<>>
    /\ scan = NoScan

\* the caller holds up to MaxBatch measurements
Init == InitCallers(UNION {[1..n -> ScanObjects] : n \in 0..MaxBatch})

\* the caller holds one measurement
InitFit == InitCallers({<<m>> : m \in FitObjects})

EndCall(fn, args, r) ==
    [fn |-> fn, args |-> args,
     status |-> IF r.raised = NoExc THEN "returned" ELSE "raised",
     raised |-> r.raised, ret |-> r.ret, locals |-> r.locals]

\* fit_am(mcas[k], ax) or fit_am(mcas[k], ax, subtracted=subtracted)
FitAm ==
    /\ call = NoCall
    /\ \E k \in 1..Len(mcas), sub \in {None, subtracted}, o \in Outcomes :
         \E r \in {fit_am(mcas[k], THRESHOLD_LEVEL, CUT_WIDTH_MULT, sub, o)} :
             /\ call' = EndCall("fit_am", [mca |-> k, subtracted |-> sub # None],
                                r.res)
             /\ mcas' = IF sub = None THEN [mcas EXCEPT ![k].counts = r.counts]
                        ELSE mcas
             /\ subtracted' = IF sub # None THEN r.counts ELSE subtracted
             /\ filtered' = r.filtered
             /\ printed' = r.res.printed
             /\ solverLog' = r.res.log
    /\ UNCHANGED <<initial, scan>>
    /\ UNCHANGED cutVars

\* fit_fe(mcas[k], ax, secondary=secondary, subtracted=sub)
FitFe ==
    /\ call = NoCall
    /\ \E k \in 1..Len(mcas), sub \in {None, subtracted}, secondary \in BOOLEAN,
          o1 \in Outcomes, o2 \in Outcomes :
         (secondary \/ o2 = o1) /\
         \E r \in {fit_fe(mcas[k], THRESHOLD_LEVEL, CUT_WIDTH_MULT, secondary, sub,
                          o1, o2)} :
             /\ call' = EndCall("fit_fe",
                                [mca |-> k, subtracted |-> sub # None,
                                 secondary |-> secondary], r)
             /\ printed' = r.printed
             /\ solverLog' = r.log
    /\ UNCHANGED <<mcas, subtracted, initial, filtered, scan>>
    /\ UNCHANGED cutVars

\* fit_manual(mcas[k], ax, min_ind, max_ind, subtracted=sub)
FitManual ==
    /\ call = NoCall
    /\ \E k \in 1..Len(mcas), sub \in {None, subtracted},
          min_ind \in {0, MaxManual - 1}, max_ind \in {MaxManual - 1, MaxManual},
          o \in Outcomes :
         \E r \in {fit_manual(mcas[k], min_ind, max_ind, sub, o)} :
             /\ call' = EndCall("fit_manual",
                                [mca |-> k, subtracted |-> sub # None,
                                 min_ind |-> min_ind, max_ind |-> max_ind], r)
             /\ printed' = r.printed
             /\ solverLog' = r.log
    /\ UNCHANGED <<mcas, subtracted, initial, filtered, scan>>
    /\ UNCHANGED cutVars

\* fit_mca_gaussian(mcas[k], inds, counts[inds], peak, peak_ind, threshold_width)
FitMcaGaussian ==
    /\ call = NoCall
    /\ \E k \in 1..Len(mcas), lo \in {0, 2}, peak \in {1, 3},
          threshold_width \in {0, 1, 5}, o \in Outcomes :
         \E args \in {[mca |-> k, inds |-> Arange(lo, lo + 3),
                         counts |-> Take(mcas[k].counts, Arange(lo, lo + 3)),
                         peak |-> peak, peak_ind |-> lo + 1,
                         threshold_width |-> threshold_width]} :
         \E r \in {fit_mca_gaussian(mcas[k], args.inds, args.counts, args.peak,
                                    args.peak_ind, args.threshold_width, o)} :
             /\ call' = EndCall("fit_mca_gaussian", args, r)
             /\ printed' = r.printed
             /\ solverLog' = r.log
    /\ UNCHANGED <<mcas, subtracted, initial, filtered, scan>>
    /\ UNCHANGED cutVars

\* fit_odr(func, x, y, std_x, std_y, p0) on the first channels of mcas[k]
FitOdr ==
    /\ call = NoCall
    /\ \E k \in 1..Len(mcas), func \in {"poly2", "gaussian_scaled"},
          std \in {None, <<1>>}, p0 \in {None, <<1, 1, 1>>}, o \in Outcomes :
         \E y \in {Take(mcas[k].counts, Arange(0, 4))} :
         \E args \in {[func |-> func, x |-> Arange(0, 4), y |-> y, std_x |-> std,
                         std_y |-> IF std = None THEN None ELSE Scaled(std, y),
                         p0 |-> p0]} :
         \E r \in {fit_odr(func, args.x, args.y, args.std_x, args.std_y, p0, o)} :
             /\ call' = EndCall("fit_odr", args, r)
             /\ printed' = r.printed
             /\ solverLog' = r.log
    /\ UNCHANGED <<mcas, subtracted, initial, filtered, scan>>
    /\ UNCHANGED cutVars

ScanFns == {"fit_am_hv_scan", "fit_fe_hv_scan"}

\* fit_am_hv_scan(mcas, ...) / fit_fe_hv_scan(mcas, ...) up to the loop
ScanStart ==
    /\ call = NoCall
    /\ \E fn \in ScanFns :
         LET grid == create_subplot_grid(Len(mcas))
         IN  IF grid.raised # NoExc
             THEN /\ call' = [fn |-> fn, args |-> [n |-> Len(mcas)],
                              status |-> "raised", raised |-> grid.raised,
                              ret |-> None, locals |-> [i |-> 0]]
                  /\ scan' = NoScan
             ELSE /\ call' = [fn |-> fn, args |-> [n |-> Len(mcas)],
                              status |-> "running", raised |-> NoExc,
                              ret |-> None, locals |-> [i |-> 0]]
                  /\ scan' = [pc |-> "loop", fn |-> fn, i |-> 0, fits |-> <<>>,
                              axes |-> grid.axes]
    /\ printed' = <<>>
    /\ solverLog' = <<>>
    /\ UNCHANGED <<mcas, subtracted, initial, filtered>>
    /\ UNCHANGED cutVars

\* one iteration of `for i, mca in enumerate(mcas)`
ScanStep ==
    /\ scan # NoScan
    /\ scan.i < Len(mcas)
    /\ \E o \in ScanOutcomes :
         \E mca \in {mcas[scan.i + 1]} :
         \E am \in {IF scan.fn = "fit_am_hv_scan"
                     THEN fit_am(mca, THRESHOLD_LEVEL, CUT_WIDTH_MULT, None, o)
                     ELSE [res |-> fit_fe(mca, THRESHOLD_LEVEL, CUT_WIDTH_MULT,
                                          FALSE, None, o, o),
                           counts |-> mca.counts, filtered |-> filtered]} :
         \E out \in {IF am.res.raised # NoExc THEN LoopRaise(scan, am.res.raised)
                      ELSE [scan |-> [scan EXCEPT
                                        !.i = scan.i + 1,
                                        !.fits = Collect(scan.fits, am.res.ret)],
                            status |-> "running", raised |-> NoExc]} :
             /\ scan' = out.scan
             /\ call' = [call EXCEPT !.status = out.status, !.raised = out.raised,
                                     !.locals = [i |-> scan.i]]
             /\ mcas' = [mcas EXCEPT ![scan.i + 1].counts = am.counts]
             /\ filtered' = am.filtered
             /\ printed' = printed \o am.res.printed
             /\ solverLog' = solverLog \o am.res.log
    /\ UNCHANGED <<subtracted, initial>>
    /\ UNCHANGED cutVars

\* plot.save_fig(fig, ...); return fits
ScanReturn ==
    /\ scan # NoScan
    /\ scan.i = Len(mcas)
    /\ call' = [call EXCEPT !.status = "returned", !.ret = scan.fits,
                            !.locals = [i |-> scan.i]]
    /\ scan' = NoScan
    /\ UNCHANGED <<mcas, subtracted, initial, filtered, printed, solverLog>>
    /\ UNCHANGED cutVars

\* the call is over: the caller has its result (or its exception), the
\* call's locals and what it printed are gone
Discard ==
    /\ call # NoCall
    /\ call.status # "running"
    /\ call' = NoCall
    /\ filtered' = None
    /\ printed' = <<>>
    /\ solverLog' = <<>>
    /\ UNCHANGED <<mcas, subtracted, initial, scan>>
    /\ UNCHANGED cutVars

Next ==
    FitAm \/ FitFe \/ FitManual \/ ScanStart \/ ScanStep \/ ScanReturn \/ Discard

Spec == Init /\ [][Next]_vars

NextFit == FitAm \/ FitFe \/ FitManual \/ FitMcaGaussian \/ FitOdr \/ Discard

SpecFit == InitFit /\ [][NextFit]_vars

\* ------------------------------------------------- claims about the fits
LacksNonlinearity(m) == m.diff_nonlin = None \/ m.int_nonlin = None
AllZero(m) == \A i \in 1..3 : \A j \in 1..3 : m[i][j] = "0"
SingleFits == {"fit_odr", "fit_mca_gaussian", "fit_am", "fit_manual"}

\* C2: in fit_fe with secondary=True the secondary peak is searched only in
\* the channels left of (primary cut start - 10): every index of the
\* secondary cut is below primary cut start - 10, so the two cuts share no
\* index.
C2_SecondaryLeftOfPrimary ==
    (call.fn = "fit_fe" /\ call.args.secondary /\ "window" \in DOMAIN call.locals)
    => /\ call.locals.window <= Max2(0, call.locals.cut_inds[1] - SecondaryGuard)
       /\ "cut_inds2" \in DOMAIN call.locals
            => \A k \in 1..Len(call.locals.cut_inds2) :
                 /\ call.locals.cut_inds2[k] < call.locals.cut_inds[1] - SecondaryGuard
                 /\ \A j \in 1..Len(call.locals.cut_inds) :
                      call.locals.cut_inds2[k] # call.locals.cut_inds[j]

\* C3: a fit that went through fit_odr returns the curve_fit parameters with
\* the curve_fit covariance, and has printed the ODR warning, when every
\* entry of the ODR covariance is zero; otherwise it returns the ODR
\* parameters with the ODR covariance and no ODR warning.  Parameters of one
\* stage are never paired with the covariance of the other.
C3_FallbackPairing ==
    (call.fn \in SingleFits /\ call.status = "returned")
    => /\ Len(solverLog) = 2
       /\ solverLog[1].solver = "curve_fit"
       /\ solverLog[2].solver = "odr"
       /\ solverLog[2].beta0 = solverLog[1].out[1]
       /\ IF AllZero(solverLog[2].out.cov_beta)
          THEN /\ call.ret = solverLog[1].out
               /\ call.ret[1].stage = "curve_fit"
               /\ printed # <<>>
               /\ printed[Len(printed)] = ODR_WARNING
          ELSE /\ call.ret = <<solverLog[2].out.beta, solverLog[2].out.cov_beta>>
               /\ call.ret[1].stage = "odr"
               /\ \A k \in 1..Len(printed) : printed[k] # ODR_WARNING

C3_Witness ==
    /\ call.fn = "fit_odr"
    /\ call.status = "returned"
    /\ AllZero(solverLog[2].out.cov_beta)
    /\ call.ret = <<[stage |-> "curve_fit", p0 |-> call.args.p0], CovInf>>
    /\ printed = <<LSQ_WARNING, ODR_WARNING>>

\* C4: fit_mca_gaussian on a measurement without differential or without
\* integral nonlinearity raises at once, before any solver is invoked; with
\* both present it hands fit_odr the scaled Gaussian, the cut, and the initial
\* guess (peak, peak_ind, 0.4 * threshold_width).
C4_NonlinearityPrecondition ==
    call.fn = "fit_mca_gaussian"
    => IF LacksNonlinearity(mcas[call.args.mca])
       THEN /\ call.status = "raised"
            /\ call.raised = "ValueError: nonlinearities"
            /\ solverLog = <<>>
            /\ printed = <<>>
       ELSE /\ solverLog # <<>>
            /\ solverLog[1].solver = "curve_fit"
            /\ solverLog[1].func = "gaussian_scaled"
            /\ solverLog[1].x = call.args.inds
            /\ solverLog[1].y = call.args.counts
            /\ Len(solverLog[1].p0) = 3
            /\ solverLog[1].p0[1] = call.args.peak
            /\ solverLog[1].p0[2] = call.args.peak_ind
            /\ 10 * solverLog[1].p0[3][1]
                 = 4 * call.args.threshold_width * solverLog[1].p0[3][2]
            /\ call.raised \in {NoExc, "SolverError"}

C4_Witness ==
    /\ call.fn = "fit_mca_gaussian"
    /\ mcas[call.args.mca].diff_nonlin # None
    /\ mcas[call.args.mca].int_nonlin = None
    /\ call.status = "raised"
    /\ solverLog = <<>>

\* ------------------------------------------------ claims about the scans
ScanEnded == call.fn \in ScanFns /\ call.status # "running"
GridOk == create_subplot_grid(Len(mcas)).raised = NoExc
Bad == {i \in 1..Len(mcas) : LacksNonlinearity(mcas[i])}
SolverCalls(name) ==
    Cardinality({k \in 1..Len(solverLog) : solverLog[k].solver = name})

\* the fit of one spectrum as the scan function `fn` asks for it
Single(fn, mca, o) ==
    IF fn = "fit_am_hv_scan"
    THEN fit_am(mca, THRESHOLD_LEVEL, CUT_WIDTH_MULT, None, o).res
    ELSE fit_fe(mca, THRESHOLD_LEVEL, CUT_WIDTH_MULT, FALSE, None, o, o)

\* what the solvers answered in the i-th pair of calls of the log
Answered(i) ==
    {o \in Outcomes : /\ ~o.raises
                      /\ o.lsq = solverLog[2 * i - 1].out[2]
                      /\ o.odr = solverLog[2 * i].out.cov_beta}

\* C6: a scan that returns, returns one result per spectrum in input order:
\* result i is what the single-spectrum fit of spectrum i returns for the
\* solver calls made on it, and equal spectra with equal solver answers have
\* equal results wherever they stand in the list.
C6_ScanOrder ==
    (call.fn \in ScanFns /\ call.status = "returned")
    => /\ Len(call.ret) = Len(mcas)
       /\ Len(solverLog) = 2 * Len(mcas)
       /\ \A i \in 1..Len(mcas) :
            \E o \in Answered(i) : \E single \in {Single(call.fn, mcas[i], o)} :
                /\ single.raised = NoExc
                /\ single.ret = call.ret[i]
                /\ single.log = <<solverLog[2 * i - 1], solverLog[2 * i]>>
       /\ \A i, j \in 1..Len(mcas) :
            (/\ mcas[i] = mcas[j]
             /\ solverLog[2 * i - 1].out = solverLog[2 * j - 1].out
             /\ solverLog[2 * i].out.cov_beta = solverLog[2 * j].out.cov_beta)
            => call.ret[i] = call.ret[j]

C6_Witness ==
    /\ call.fn \in ScanFns
    /\ call.status = "returned"
    /\ Len(mcas) = MaxBatch
    /\ mcas[1] # mcas[2]
    /\ call.ret[1] # call.ret[2]
    /\ call.ret[1][1].stage # call.ret[3][1].stage

\* C7 as stated: a scan over a list with an unconfigured spectrum still
\* fits every other spectrum and returns their results.
C7_Original ==
    (ScanEnded /\ GridOk /\ Bad # {} /\ call.raised # "SolverError")
    => /\ call.status = "returned"
       /\ SolverCalls("curve_fit") = Len(mcas) - Cardinality(Bad)

\* C7: a configuration error on one spectrum aborts the whole scan: the scan
\* function raises (the ValueError of the first unconfigured spectrum, unless
\* the fit of an earlier spectrum raised), returns no list, and no spectrum
\* from the unconfigured one on is fitted.
C7_ScanAborts ==
    (ScanEnded /\ GridOk /\ Bad # {})
    => /\ call.status = "raised"
       /\ call.ret = None
       /\ call.locals.i + 1 <= SetMin(Bad)
       /\ (call.raised = "ValueError: nonlinearities")
            <=> (call.locals.i + 1 = SetMin(Bad))
       /\ SolverCalls("curve_fit") <= SetMin(Bad) - 1
       /\ SolverCalls("odr") <= SetMin(Bad) - 1

C7_Witness ==
    /\ ScanEnded
    /\ Len(mcas) = MaxBatch
    /\ Bad = {3}
    /\ call.raised = "ValueError: nonlinearities"
    /\ SolverCalls("odr") = 2

\* C10: whatever fit function was called, the caller's arrays are as they
\* were handed over: the counts and nonlinearities of every measurement and
\* the subtracted array.  fit_am zeroes a copy.
C10_InputsUnchanged ==
    /\ mcas = initial.mcas
    /\ subtracted = initial.subtracted

C10_Witness ==
    /\ call.fn = "fit_am"
    /\ call.status = "returned"
    /\ call.args.subtracted
    /\ call.locals.half_ind > 0
    /\ filtered # subtracted
    /\ subtracted = initial.subtracted
    /\ mcas = initial.mcas

====
